---- MODULE Spec2Model ----
(***************************************************************************)
(* autolex: reconciliation of Lexware (Source) contacts into AutoTask      *)
(* (Target) companies and contacts.                                        *)
(*                                                                         *)
(* A run is one invocation of the webhook handler or of the CLI `sync`     *)
(* command.  Every remote call of a run is one atomic step: the step       *)
(* issues the call, applies its effect to the remote system and executes   *)
(* the local code that follows it up to the next remote call.              *)
(*                                                                         *)
(* Python's None is Null for string-valued fields and NoId for ids and     *)
(* other integer-valued fields (ids assigned by Target are positive).      *)
(* Pass-through text fields of a contact person (firstName, lastName,      *)
(* phoneNumber) are copied verbatim by the code and decide nothing; they   *)
(* are not carried in the model.                                           *)
(***************************************************************************)
EXTENDS Integers, Sequences, FiniteSets, TLC

VARIABLES
    source,         \* Source's payload of GET /contacts/{resourceId}
    tCompanies,     \* Target: companies, in the order queries return them
    tContacts,      \* Target: contacts of all companies, in listing order
    nextContactId,  \* Target: id the next created contact gets
    faults,         \* remote-call failures the environment may still inject
    run,            \* per run: control point and the handler's local variables
    calls,          \* per run: the remote calls issued so far, in order
    verification    \* one call of _verify_sha512_signature: arguments and result

vars == <<source, tCompanies, tContacts, nextContactId, faults, run, calls, verification>>

-----------------------------------------------------------------------------
(* Bounds of the model *)

MaxContacts == 2          \* contactPersons of the Source record
MaxTargetContacts == 2    \* contacts Target holds before the first run
MaxFaults == 1            \* failing remote calls (SpecFault only)

Runs == {1, 2}
CustNums == {"1001", "1002"}
Emails == {"a@x.com", "b@x.com"}
CountryCodes == {"DE", "XX"}

Null == "null"
NoId == 0

RECURSIVE SeqsUpTo(_, _)
SeqsUpTo(S, n) ==
    IF n = 0 THEN {<<>>}
    ELSE LET shorter == SeqsUpTo(S, n - 1)
         IN  shorter \cup {Append(s, x) : s \in {t \in shorter : Len(t) = n - 1}, x \in S}

-----------------------------------------------------------------------------
(* Configuration read from the environment by _return_clients *)

owner_resource_id == 4711
default_phone == "+49 30 000"

-----------------------------------------------------------------------------
(* Python helpers *)

\* f'{value}' : None is formatted as the text None
Str(v) == IF v = Null THEN "None" ELSE v

IntFields ==
    {"id", "itemId", "companyType", "ownerResourceID", "countryID", "billToCountryID",
     "isActive"}
BoolFields == {"primaryContact"}

\* `v is not None` for the value v of field f
IsSet(f, v) ==
    CASE f \in BoolFields -> TRUE
      [] f \in IntFields  -> v # NoId
      [] OTHER            -> v # Null

\* as_dict without its filter: every attribute, set or not
as_dict_all(obj) == obj

\* Company.as_dict / ContactModel.as_dict: only the attributes which are set
as_dict(obj) == [f \in {g \in DOMAIN obj : IsSet(g, obj[g])} |-> obj[f]]

\* dict.get(key) on a decoded JSON object
Get(json, f) ==
    IF f \in DOMAIN json THEN json[f]
    ELSE IF f \in IntFields THEN NoId ELSE Null

NoJson == [f \in {} |-> Null]

\* {key(c): val(c) for c in seq}: keys in order of first occurrence, each
\* with the value of its last occurrence
RECURSIVE DictOf(_)
DictOf(pairs) ==
    IF pairs = <<>> THEN <<>>
    ELSE LET n    == Len(pairs)
             last == pairs[n]
             rest == DictOf(SubSeq(pairs, 1, n - 1))
         IN  IF \E i \in 1..Len(rest) : rest[i].key = last.key
             THEN [i \in 1..Len(rest) |->
                      IF rest[i].key = last.key THEN last ELSE rest[i]]
             ELSE Append(rest, last)

Keys(dict) == {dict[i].key : i \in 1..Len(dict)}

-----------------------------------------------------------------------------
(* Source (Lexware): payloads and the SourceRecord mapping *)

\* The address of a payload, by its country code
Address(code) == [street |-> "Main St 1", zip |-> "10115", city |-> "Berlin", countryCode |-> code]

\* GET /contacts/{id} payloads.  hasCompany: the payload has the 'company'
\* sub-object (a company, not a person).  number: roles.customer.number, Null
\* when roles has no 'customer' entry or that entry has no 'number'.
CompanyPayloads ==
    [hasCompany     : {TRUE},
     number         : {Null, "1001"},
     name           : {"ACME GmbH"},
     taxNumber      : {Null},
     contactPersons : SeqsUpTo(Emails, MaxContacts),
     business       : {<<>>},
     fax            : {<<>>},
     billing        : SeqsUpTo(CountryCodes, 1),
     shipping       : SeqsUpTo(CountryCodes, 1)]

PersonPayload ==
    [hasCompany |-> FALSE, number |-> Null, name |-> Null, taxNumber |-> Null,
     contactPersons |-> <<>>, business |-> <<>>, fax |-> <<>>,
     billing |-> <<>>, shipping |-> <<>>]

SourcePayloads == CompanyPayloads \cup {PersonPayload}

\* Python None as the value of lex_company
None == [isNone |-> TRUE]

ContactPerson_from_dict(email) == [emailAddress |-> email]

Company_from_dict(data) ==
    [roles_customer_number |-> data.number,
     name              |-> data.name,
     taxNumber         |-> data.taxNumber,
     contactPersons    |-> [i \in 1..Len(data.contactPersons) |->
                               ContactPerson_from_dict(data.contactPersons[i])],
     phoneNumbers      |-> data.business,
     faxNumbers        |-> data.fax,
     billing_adresses  |-> [i \in 1..Len(data.billing) |-> Address(data.billing[i])],
     shipping_adresses |-> [i \in 1..Len(data.shipping) |-> Address(data.shipping[i])]]

\* Lexware.get_contact, after a successful response
get_contact(data) == IF data.hasCompany THEN Company_from_dict(data) ELSE None

-----------------------------------------------------------------------------
(* Target (AutoTask): the REST resources the code calls *)

Countries == <<[id |-> 276, countryCode |-> "DE"]>>

\* GET /Countries/query?search={countryCode eq code}
CountriesQuery(code) == SelectSeq(Countries, LAMBDA c : c.countryCode = code)

\* GET /Companies/query?search={companyNumber eq value}
CompaniesQuery(value) == SelectSeq(tCompanies, LAMBDA c : c.companyNumber = value)

CompanyIds == {tCompanies[i].id : i \in 1..Len(tCompanies)}

\* POST /Companies: the new company gets the next id
NewCompanyId == Len(tCompanies) + 1
CompaniesPost(json) ==
    Append(tCompanies, [id |-> NewCompanyId, companyNumber |-> Get(json, "companyNumber")])

\* PATCH /Companies: the fields of the payload overwrite those of company json.id
CompaniesPatch(json) ==
    [i \in 1..Len(tCompanies) |->
        IF tCompanies[i].id = Get(json, "id") /\ "companyNumber" \in DOMAIN json
        THEN [tCompanies[i] EXCEPT !.companyNumber = json.companyNumber]
        ELSE tCompanies[i]]

\* GET /Companies/{companyId}/Contacts
ContactsOf(companyId) == SelectSeq(tContacts, LAMBDA c : c.companyID = companyId)

\* POST /Companies/{companyId}/Contacts
ContactsPost(companyId, json) ==
    Append(tContacts, [id             |-> nextContactId,
                       companyID      |-> companyId,
                       emailAddress   |-> Get(json, "emailAddress"),
                       primaryContact |-> json.primaryContact])

\* PATCH /Companies/{companyId}/Contacts: the fields of the payload overwrite
\* those of contact json.id
ContactsPatch(companyId, json) ==
    [i \in 1..Len(tContacts) |->
        IF tContacts[i].id = Get(json, "id") /\ tContacts[i].companyID = companyId
        THEN [tContacts[i] EXCEPT
                 !.emailAddress   = IF "emailAddress" \in DOMAIN json
                                    THEN json.emailAddress ELSE @,
                 !.primaryContact = json.primaryContact]
        ELSE tContacts[i]]

\* DELETE /Companies/{companyId}/Contacts/{contactId}
ContactsDelete(companyId, contactId) ==
    SelectSeq(tContacts, LAMBDA c : ~(c.id = contactId /\ c.companyID = companyId))

-----------------------------------------------------------------------------
(* Initial states *)

\* Target's companies before the first run, by their companyNumber: none,
\* one or two with the Source's customer number, with or without another one
InitCompanyNumbers ==
    {<<>>, <<"1002">>, <<"1001">>, <<"1002", "1001">>, <<"1001", "1001">>}

InitCompanies ==
    {[i \in 1..Len(nums) |-> [id |-> i, companyNumber |-> nums[i]]] :
        nums \in InitCompanyNumbers}

\* Target's contacts before the first run: ids 1..n, each under some company
\* with some email; the first contact listed for a company is its primary one
InitContacts(companies) ==
    LET ContactData == [companyID    : {companies[i].id : i \in 1..Len(companies)},
                        emailAddress : Emails]
    IN  {[i \in 1..Len(cs) |->
            [id |-> i, companyID |-> cs[i].companyID,
             emailAddress |-> cs[i].emailAddress,
             primaryContact |-> \A j \in 1..(i - 1) : cs[j].companyID # cs[i].companyID]] :
            cs \in SeqsUpTo(ContactData, MaxTargetContacts)}

\* The handler's local variables before it runs
IdleRun ==
    [pc              |-> "idle",
     entry           |-> "none",
     sig             |-> "none",
     eventType       |-> "none",
     lex_company     |-> None,
     customer_number |-> Null,
     companies       |-> <<>>,
     mode            |-> "none",
     company         |-> NoJson,
     autotask_id     |-> NoId,
     company_id      |-> NoId,
     contacts        |-> <<>>,
     email_map       |-> <<>>,
     idx             |-> 0,
     logged          |-> {},
     response        |-> "none"]

\* No signature is being verified
NoVerification == [result |-> "none"]

InitCommon ==
    /\ source \in SourcePayloads
    /\ tCompanies \in InitCompanies
    /\ tContacts \in InitContacts(tCompanies)
    /\ nextContactId = Len(tContacts) + 1
    /\ run = [r \in Runs |-> IdleRun]
    /\ calls = [r \in Runs |-> <<>>]
    /\ verification = NoVerification

Init == InitCommon /\ faults = 0

InitFault == InitCommon /\ faults \in 0..MaxFaults

\* Overlapping runs: Target holds no company yet, or the one company with the
\* Source's customer number
ConcCompanyNumbers == {<<>>, <<"1001">>}

InitConc ==
    /\ Init
    /\ \E nums \in ConcCompanyNumbers :
          tCompanies = [i \in 1..Len(nums) |-> [id |-> i, companyNumber |-> nums[i]]]

-----------------------------------------------------------------------------
(* Remote calls and their outcomes *)

\* ok: the call is served.  error: the server answers an error status with a
\* JSON error body and changes nothing.  raise: the call raises (connection
\* error, or a body that is no JSON).
Outcomes == IF faults > 0 THEN {"ok", "error", "raise"} ELSE {"ok"}

Call(method, resource, companyId, contactId, json, outcome) ==
    [method |-> method, resource |-> resource, companyId |-> companyId,
     contactId |-> contactId, json |-> json, outcome |-> outcome]

\* The call is appended to the run's calls; a failure uses up one fault
Issue(r, call) ==
    /\ calls' = [calls EXCEPT ![r] = Append(@, call)]
    /\ faults' = IF call.outcome = "ok" THEN faults ELSE faults - 1

\* An exception nothing catches ends the handler
Raised(loc, exception) == [loc EXCEPT !.pc = "done", !.response = exception]

\* The handler returns: the webhook view answers, the CLI command exits
Returned(loc) ==
    [loc EXCEPT !.pc = "done",
                !.response = IF loc.entry = "webhook" THEN "Webhook received!" ELSE "exit 0"]

-----------------------------------------------------------------------------
(* AutoTask._create_company_object *)

CompanyFields ==
    {"id", "companyName", "companyNumber", "companyType", "ownerResourceID", "taxID",
     "phone", "fax", "address1", "city", "postalCode", "countryID",
     "billingAddress1", "billToCity", "billToZipCode", "billToCountryID"}

\* Company(): every attribute None but companyType, which defaults to 1
Company ==
    [f \in CompanyFields |->
        IF f = "companyType" THEN 1 ELSE IF f \in IntFields THEN NoId ELSE Null]

\* The attributes set before the address lookups
CompanyObject(lex_company) ==
    [Company EXCEPT
        !.companyName     = lex_company.name,
        !.companyNumber   = lex_company.roles_customer_number,
        !.ownerResourceID = owner_resource_id,
        !.taxID           = lex_company.taxNumber,
        !.phone           = IF Len(lex_company.phoneNumbers) >= 1
                            THEN lex_company.phoneNumbers[1] ELSE default_phone,
        !.fax             = IF Len(lex_company.faxNumbers) >= 1
                            THEN lex_company.faxNumbers[1] ELSE Null]

\* _get_country_id falling back to the first country Target knows
CountryIdOfDefault(items, country_code) ==
    IF \E i \in 1..Len(items) : items[i].countryCode = country_code
    THEN items[CHOOSE i \in 1..Len(items) : items[i].countryCode = country_code].id
    ELSE Countries[1].id

\* _get_country_id on the response's items: the id of the first country with
\* that code, None when there is none
CountryIdOf(items, country_code) ==
    IF \E i \in 1..Len(items) : items[i].countryCode = country_code
    THEN items[CHOOSE i \in 1..Len(items) :
                  /\ items[i].countryCode = country_code
                  /\ \A j \in 1..(i - 1) : items[j].countryCode # country_code].id
    ELSE NoId

\* update_company without its company PATCH: the contacts are fetched at once
BuildNextNoPatch(loc, stage) ==
    IF stage = "start" /\ Len(loc.lex_company.shipping_adresses) >= 1
    THEN [loc EXCEPT !.pc = "country_shipping"]
    ELSE IF stage # "billed" /\ Len(loc.lex_company.billing_adresses) >= 1
    THEN [loc EXCEPT !.pc = "country_billing"]
    ELSE IF loc.mode = "create"
    THEN [loc EXCEPT !.pc = "post_company"]
    ELSE [loc EXCEPT !.pc = "get_contacts", !.company.id = loc.autotask_id]

\* Where _create_company_object goes on: the shipping lookup, the billing
\* lookup, or back in create_company / update_company with the company built
BuildNext(loc, stage) ==
    IF stage = "start" /\ Len(loc.lex_company.shipping_adresses) >= 1
    THEN [loc EXCEPT !.pc = "country_shipping"]
    ELSE IF stage # "billed" /\ Len(loc.lex_company.billing_adresses) >= 1
    THEN [loc EXCEPT !.pc = "country_billing"]
    ELSE IF loc.mode = "create"
    THEN [loc EXCEPT !.pc = "post_company"]
    ELSE [loc EXCEPT !.pc = "patch_company", !.company.id = loc.autotask_id]

\* create_company up to its first remote call
create_company(loc) ==
    BuildNext([loc EXCEPT !.mode = "create",
                          !.company = CompanyObject(loc.lex_company)], "start")

\* update_company up to its first remote call
update_company(loc, autotask_id) ==
    BuildNext([loc EXCEPT !.mode = "update",
                          !.autotask_id = autotask_id,
                          !.company = CompanyObject(loc.lex_company)], "start")

\* Dispatch with the wrong key read from the matched company: no id
DispatchNoId(loc, companies) ==
    LET l1 == [loc EXCEPT !.companies = companies]
    IN  IF Len(companies) = 0 THEN create_company(l1)
        ELSE IF Len(companies) = 1 THEN update_company(l1, NoId)
        ELSE Returned([l1 EXCEPT !.logged = @ \cup {"exists multiple times in AutoTask"}])

\* Dispatch with `>= 1` for `== 1`: several matches update the first
DispatchFirstOfMany(loc, companies) ==
    LET l1 == [loc EXCEPT !.companies = companies]
    IN  IF Len(companies) = 0 THEN create_company(l1)
        ELSE LET l2 == update_company(l1, Get(companies[1], "id"))
             IN  IF Len(companies) = 1 THEN l2
                 ELSE [l2 EXCEPT !.logged = @ \cup {"exists multiple times in AutoTask"}]

\* assure_company after the query: the three tests on len(companies)
Dispatch(loc, companies) ==
    LET l1 == [loc EXCEPT !.companies = companies]
    IN  IF Len(companies) = 0 THEN create_company(l1)
        ELSE IF Len(companies) = 1 THEN update_company(l1, Get(companies[1], "id"))
        ELSE Returned([l1 EXCEPT !.logged = @ \cup {"exists multiple times in AutoTask"}])

\* assure_company up to its first remote call
assure_company(loc) ==
    IF loc.lex_company = None
    THEN Raised(loc, "AttributeError")
    ELSE [loc EXCEPT !.customer_number = loc.lex_company.roles_customer_number,
                     !.pc = "query"]

\* ContactModel with the primary test off by one: no contact is primary
ContactModelOffByOne(contact, idx) ==
    [id |-> NoId, emailAddress |-> contact.emailAddress,
     isActive |-> 1, primaryContact |-> (idx = 0)]

\* ContactModel(...) of the idx-th contact person (idx counts from 1 here,
\* from 0 in the code: the first one is primary)
ContactModel(contact, idx) ==
    [id |-> NoId, emailAddress |-> contact.emailAddress,
     isActive |-> 1, primaryContact |-> (idx = 1)]

LexEmails(loc) ==
    {loc.lex_company.contactPersons[i].emailAddress :
        i \in 1..Len(loc.lex_company.contactPersons)}

\* The contact loops: the next pass, or the end of the handler
NextContact(loc, pc, idx) ==
    IF idx <= Len(loc.lex_company.contactPersons)
    THEN [loc EXCEPT !.pc = pc, !.idx = idx]
    ELSE Returned(loc)

\* The cleanup loop over email_map from entry `from`: the next entry whose
\* email is not in lex_contacts is deleted; after the last the update loop
NextDelete(loc, from) ==
    LET stale == {i \in from..Len(loc.email_map) : loc.email_map[i].key \notin LexEmails(loc)}
    IN  IF stale # {}
        THEN [loc EXCEPT !.pc = "delete_contact",
                         !.idx = CHOOSE i \in stale : \A j \in stale : i <= j]
        ELSE NextContact(loc, "update_contact", 1)

\* email_map = {c.get('emailAddress'): c.get('id') for c in contacts}
EmailMap(contacts) ==
    DictOf([i \in 1..Len(contacts) |->
               [key |-> Get(contacts[i], "emailAddress"), val |-> Get(contacts[i], "id")]])

\* The lookup that never finds a contact: every Source contact is created
ContactIdOfNone(contacts, email) == NoId

\* The id of the first fetched contact with that email, None when there is none
ContactIdOf(contacts, email) ==
    IF \E i \in 1..Len(contacts) : contacts[i].emailAddress = email
    THEN contacts[CHOOSE i \in 1..Len(contacts) :
                     /\ contacts[i].emailAddress = email
                     /\ \A j \in 1..(i - 1) : contacts[j].emailAddress # email].id
    ELSE NoId

-----------------------------------------------------------------------------
(* Entry points *)

SignatureHeaders == {"valid", "wrong", "missing"}
EventTypes == {"contact.created", "contact.changed", "invoice.created"}

\* Webhook._verify_sha512_signature on the X-Lxo-Signature header: the header's
\* signature verifies, does not verify, or is None, which has no encode()
verify_sha512_signature(sig) ==
    CASE sig = "valid"   -> "True"
      [] sig = "wrong"   -> "False"
      [] sig = "missing" -> "AttributeError"

\* Webhook.load_webhook: the Webhook, or the exception raised
load_webhook(sig) ==
    LET verified == verify_sha512_signature(sig)
    IN  CASE verified = "True"  -> "Webhook"
          [] verified = "False" -> "ValueError: Invalid signature"
          [] OTHER              -> verified

\* The view with `contact.changed` left out of the match statement
webhookCreatedOnly(loc, sig, eventType) ==
    LET l0 == [loc EXCEPT !.entry = "webhook", !.sig = sig]
        l1 == [l0 EXCEPT !.eventType = eventType]
    IN  IF load_webhook(sig) # "Webhook"
        THEN Raised(l0, load_webhook(sig))
        ELSE IF eventType = "contact.created"
        THEN [l1 EXCEPT !.pc = "get_contact"]
        ELSE [l1 EXCEPT !.pc = "done", !.response = "Webhook received, but not processed!"]

\* The view webhook() up to its first remote call
webhook(loc, sig, eventType) ==
    LET l0 == [loc EXCEPT !.entry = "webhook", !.sig = sig]
        l1 == [l0 EXCEPT !.eventType = eventType]
    IN  IF load_webhook(sig) # "Webhook"
        THEN Raised(l0, load_webhook(sig))
        ELSE IF eventType \in {"contact.created", "contact.changed"}
        THEN [l1 EXCEPT !.pc = "get_contact"]
        ELSE [l1 EXCEPT !.pc = "done", !.response = "Webhook received, but not processed!"]

\* The command sync --contact-id
sync(loc) == [loc EXCEPT !.entry = "cli", !.pc = "get_contact"]

\* After lexware.get_contact returned: _sync_contact calls assure_company,
\* sync calls create_company
AfterGetContact(loc, lex_company) ==
    LET l1 == [loc EXCEPT !.lex_company = lex_company]
    IN  IF loc.entry = "webhook" THEN assure_company(l1)
        ELSE IF lex_company = None THEN Raised(l1, "AttributeError")
        ELSE create_company(l1)

\* A single run
MayStart(r) ==
    /\ run[r].pc = "idle"
    /\ \A q \in Runs : q < r => FALSE

\* Runs are taken in order, one after the other
MayStartNext(r) ==
    /\ run[r].pc = "idle"
    /\ \A q \in Runs : q < r => run[q].pc = "done"

\* A server holding a lock per request: a run starts when no other is under way
MayStartLocked(r) ==
    /\ run[r].pc = "idle"
    /\ \A q \in Runs : q # r => run[q].pc \in {"idle", "done"}

\* Requests are served as they arrive, each by its own thread of the server:
\* a run starts whatever the other runs are doing
MayStartConc(r) == run[r].pc = "idle"

ReceiveWebhook(r) ==
    /\ \E sig \in SignatureHeaders, eventType \in EventTypes :
          run' = [run EXCEPT ![r] = webhook(@, sig, eventType)]
    /\ UNCHANGED <<source, tCompanies, tContacts, nextContactId, faults, calls, verification>>

SyncCommand(r) ==
    /\ run' = [run EXCEPT ![r] = sync(@)]
    /\ UNCHANGED <<source, tCompanies, tContacts, nextContactId, faults, calls, verification>>

-----------------------------------------------------------------------------
(* The remote calls, one action each *)

\* Lexware.get_contact: GET {base_url}/contacts/{id}, raise_for_status
GetContact(r) ==
    /\ run[r].pc = "get_contact"
    /\ \E o \in Outcomes :
          /\ Issue(r, Call("GET", "LexContact", NoId, NoId, NoJson, o))
          /\ run' = [run EXCEPT ![r] =
                        CASE o = "ok"    -> AfterGetContact(@, get_contact(source))
                          [] o = "error" -> Raised(@, "HTTPError")
                          [] OTHER       -> Raised(@, "RequestException")]
    /\ UNCHANGED <<source, tCompanies, tContacts, nextContactId, verification>>

\* assure_company issuing its query again when Target answered an error
AssureCompanyQueryRetry(r) ==
    /\ run[r].pc = "query"
    /\ \E o \in Outcomes :
          /\ Issue(r, Call("GET", "CompaniesQuery", NoId, NoId, NoJson, o))
          /\ run' = [run EXCEPT ![r] =
                        CASE o = "ok"    -> Dispatch(@, CompaniesQuery(Str(@.customer_number)))
                          [] o = "error" -> @
                          [] OTHER       -> Raised(@, "RequestException")]
    /\ UNCHANGED <<source, tCompanies, tContacts, nextContactId, verification>>

\* assure_company: GET /Companies/query?search=companyNumber eq customer_number
AssureCompanyQuery(r) ==
    /\ run[r].pc = "query"
    /\ \E o \in Outcomes :
          /\ Issue(r, Call("GET", "CompaniesQuery", NoId, NoId, NoJson, o))
          /\ run' = [run EXCEPT ![r] =
                        CASE o = "ok"    -> Dispatch(@, CompaniesQuery(Str(@.customer_number)))
                          [] o = "error" -> Dispatch(@, <<>>)
                          [] OTHER       -> Raised(@, "RequestException")]
    /\ UNCHANGED <<source, tCompanies, tContacts, nextContactId, verification>>

\* _create_company_object: the shipping address and its country lookup
CountryShipping(r) ==
    /\ run[r].pc = "country_shipping"
    /\ LET address == run[r].lex_company.shipping_adresses[1]
       IN  \E o \in Outcomes :
              /\ Issue(r, Call("GET", "CountriesQuery", NoId, NoId, NoJson, o))
              /\ run' = [run EXCEPT ![r] =
                    IF o = "raise" THEN Raised(@, "RequestException")
                    ELSE LET items == IF o = "ok" THEN CountriesQuery(address.countryCode)
                                      ELSE <<>>
                         IN  BuildNext([@ EXCEPT
                                 !.company.address1   = address.street,
                                 !.company.city       = address.city,
                                 !.company.postalCode = address.zip,
                                 !.company.countryID  = CountryIdOf(items, address.countryCode)],
                                 "shipped")]
    /\ UNCHANGED <<source, tCompanies, tContacts, nextContactId, verification>>

\* _create_company_object: the billing address and its country lookup
CountryBilling(r) ==
    /\ run[r].pc = "country_billing"
    /\ LET address == run[r].lex_company.billing_adresses[1]
       IN  \E o \in Outcomes :
              /\ Issue(r, Call("GET", "CountriesQuery", NoId, NoId, NoJson, o))
              /\ run' = [run EXCEPT ![r] =
                    IF o = "raise" THEN Raised(@, "RequestException")
                    ELSE LET items == IF o = "ok" THEN CountriesQuery(address.countryCode)
                                      ELSE <<>>
                         IN  BuildNext([@ EXCEPT
                                 !.company.billingAddress1 = address.street,
                                 !.company.billToCity      = address.city,
                                 !.company.billToZipCode   = address.zip,
                                 !.company.billToCountryID = CountryIdOf(items, address.countryCode)],
                                 "billed")]
    /\ UNCHANGED <<source, tCompanies, tContacts, nextContactId, verification>>

\* company_id read from the key 'id', which the response does not have
CompanyIdOfWrongKey(response) == Get(response, "id")

\* create_company: company_id = company_call_object.get('itemId')
CompanyIdOf(response) == Get(response, "itemId")

\* create_company: POST /Companies, company_id = response itemId
PostCompany(r) ==
    /\ run[r].pc = "post_company"
    /\ LET json == as_dict(run[r].company)
       IN  \E o \in Outcomes :
              /\ Issue(r, Call("POST", "Companies", NoId, NoId, json, o))
              /\ tCompanies' = IF o = "ok" THEN CompaniesPost(json) ELSE tCompanies
              /\ run' = [run EXCEPT ![r] =
                    IF o = "raise" THEN Raised(@, "RequestException")
                    ELSE LET response == IF o = "ok" THEN [itemId |-> NewCompanyId]
                                         ELSE [errors |-> "error"]
                         IN  NextContact([@ EXCEPT !.company_id = CompanyIdOf(response)],
                                         "post_contact", 1)]
    /\ UNCHANGED <<source, tContacts, nextContactId, verification>>

\* create_company: POST /Companies/{company_id}/Contacts for contact idx.
\* Target serves it when the company exists and answers an error otherwise.
PostContact(r) ==
    /\ run[r].pc = "post_contact"
    /\ LET loc  == run[r]
           json == as_dict(ContactModel(loc.lex_company.contactPersons[loc.idx], loc.idx))
       IN  \E o \in Outcomes :
              LET served == o = "ok" /\ loc.company_id \in CompanyIds
              IN  /\ Issue(r, Call("POST", "Contacts", loc.company_id, NoId, json, o))
                  /\ tContacts' = IF served THEN ContactsPost(loc.company_id, json)
                                  ELSE tContacts
                  /\ nextContactId' = IF served THEN nextContactId + 1 ELSE nextContactId
                  /\ run' = [run EXCEPT ![r] =
                        IF o = "raise" THEN Raised(@, "RequestException")
                        ELSE NextContact(@, "post_contact", loc.idx + 1)]
    /\ UNCHANGED <<source, tCompanies, verification>>

\* update_company: PATCH /Companies with the company's id in the payload
PatchCompany(r) ==
    /\ run[r].pc = "patch_company"
    /\ LET json == as_dict(run[r].company)
       IN  \E o \in Outcomes :
              /\ Issue(r, Call("PATCH", "Companies", NoId, NoId, json, o))
              /\ tCompanies' = IF o = "ok" THEN CompaniesPatch(json) ELSE tCompanies
              /\ run' = [run EXCEPT ![r] =
                    IF o = "raise" THEN Raised(@, "RequestException")
                    ELSE [@ EXCEPT !.pc = "get_contacts"]]
    /\ UNCHANGED <<source, tContacts, nextContactId, verification>>

\* update_company: GET /Companies/{autotask_id}/Contacts, then the two maps
GetContacts(r) ==
    /\ run[r].pc = "get_contacts"
    /\ \E o \in Outcomes :
          /\ Issue(r, Call("GET", "Contacts", run[r].autotask_id, NoId, NoJson, o))
          /\ run' = [run EXCEPT ![r] =
                IF o = "raise" THEN Raised(@, "RequestException")
                ELSE LET contacts == IF o = "ok" THEN ContactsOf(@.autotask_id) ELSE <<>>
                     IN  NextDelete([@ EXCEPT !.contacts = contacts,
                                              !.email_map = EmailMap(contacts)], 1)]
    /\ UNCHANGED <<source, tCompanies, tContacts, nextContactId, verification>>

\* update_company, cleanup: DELETE /Companies/{autotask_id}/Contacts/{contact_id}
DeleteContact(r) ==
    /\ run[r].pc = "delete_contact"
    /\ LET loc        == run[r]
           contact_id == loc.email_map[loc.idx].val
       IN  \E o \in Outcomes :
              /\ Issue(r, Call("DELETE", "Contacts", loc.autotask_id, contact_id, NoJson, o))
              /\ tContacts' = IF o = "ok" THEN ContactsDelete(loc.autotask_id, contact_id)
                              ELSE tContacts
              /\ run' = [run EXCEPT ![r] =
                    IF o = "raise" THEN Raised(@, "RequestException")
                    ELSE NextDelete(@, loc.idx + 1)]
    /\ UNCHANGED <<source, tCompanies, nextContactId, verification>>

\* update_company, update loop: PATCH the contact when the fetched list has
\* one with that email, POST a new one otherwise
UpdateContact(r) ==
    /\ run[r].pc = "update_contact"
    /\ LET loc         == run[r]
           lex_contact == loc.lex_company.contactPersons[loc.idx]
           contact_id  == ContactIdOf(loc.contacts, lex_contact.emailAddress)
           model       == ContactModel(lex_contact, loc.idx)
           json        == IF contact_id # NoId
                          THEN as_dict([model EXCEPT !.id = contact_id])
                          ELSE as_dict(model)
           method      == IF contact_id # NoId THEN "PATCH" ELSE "POST"
       IN  \E o \in Outcomes :
              LET served == o = "ok" /\ loc.autotask_id \in CompanyIds
              IN  /\ Issue(r, Call(method, "Contacts", loc.autotask_id, NoId, json, o))
                  /\ tContacts' =
                        IF ~served THEN tContacts
                        ELSE IF method = "PATCH" THEN ContactsPatch(loc.autotask_id, json)
                        ELSE ContactsPost(loc.autotask_id, json)
                  /\ nextContactId' = IF served /\ method = "POST"
                                      THEN nextContactId + 1 ELSE nextContactId
                  /\ run' = [run EXCEPT ![r] =
                        IF o = "raise" THEN Raised(@, "RequestException")
                        ELSE NextContact(@, "update_contact", loc.idx + 1)]
    /\ UNCHANGED <<source, tCompanies, verification>>

-----------------------------------------------------------------------------
(* Specifications *)

Step(r) ==
    \/ GetContact(r)
    \/ AssureCompanyQuery(r)
    \/ CountryShipping(r)
    \/ CountryBilling(r)
    \/ PostCompany(r)
    \/ PostContact(r)
    \/ PatchCompany(r)
    \/ GetContacts(r)
    \/ DeleteContact(r)
    \/ UpdateContact(r)

\* One run on any state of Source and Target
Next ==
    \E r \in Runs :
        \/ MayStart(r) /\ ReceiveWebhook(r)
        \/ MayStart(r) /\ SyncCommand(r)
        \/ Step(r)

Spec == Init /\ [][Next]_vars

\* Runs in succession: the next starts when the one before has ended
NextTwice ==
    \E r \in Runs :
        \/ MayStartNext(r) /\ ReceiveWebhook(r)
        \/ MayStartNext(r) /\ SyncCommand(r)
        \/ Step(r)

SpecTwice == Init /\ [][NextTwice]_vars

\* Overlapping webhook runs: their remote calls interleave in any order
NextConc ==
    \E r \in Runs :
        \/ MayStartConc(r) /\ ReceiveWebhook(r)
        \/ Step(r)

SpecConc == InitConc /\ [][NextConc]_vars

\* One run in which remote calls may fail
SpecFault == InitFault /\ [][Next]_vars

\* A started handler keeps running: every remote call returns or raises
SpecFaultFair == SpecFault /\ \A r \in Runs : WF_vars(Step(r))

-----------------------------------------------------------------------------
(* Webhook._verify_sha512_signature *)

\* Text is a sequence of character codes (ASCII), a byte string a sequence of
\* bytes.  A bit of a character or byte is one of its eight binary digits.
Bits == 0..7
Space == 32
Pad == 61

RECURSIVE Pow2(_)
Pow2(b) == IF b = 0 THEN 1 ELSE 2 * Pow2(b - 1)

\* The code c with its bit b inverted
FlipBit(c, b) == IF (c \div Pow2(b)) % 2 = 1 THEN c - Pow2(b) ELSE c + Pow2(b)

\* The text with bit b of its i-th character inverted
FlipBitAt(text, i, b) == [text EXCEPT ![i] = FlipBit(@, b)]

\* data.replace(' ', '')
replace_spaces(data) == SelectSeq(data, LAMBDA c : c # Space)

\* The base64 alphabet: the character of a 6-bit value, and the value of a
\* character, 64 for a character outside the alphabet
B64Char(v) ==
    CASE v < 26 -> 65 + v
      [] v >= 26 /\ v < 52 -> 97 + (v - 26)
      [] v >= 52 /\ v < 62 -> 48 + (v - 52)
      [] v = 62 -> 43
      [] OTHER  -> 47

B64Value(c) ==
    CASE c \in 65..90  -> c - 65
      [] c \in 97..122 -> c - 97 + 26
      [] c \in 48..57  -> c - 48 + 52
      [] c = 43 -> 62
      [] c = 47 -> 63
      [] OTHER  -> 64

\* The base64 text of a byte string, as the signer puts it in the header
RECURSIVE b64encode(_)
b64encode(bytes) ==
    IF bytes = <<>> THEN <<>>
    ELSE IF Len(bytes) = 1
    THEN <<B64Char(bytes[1] \div 4), B64Char((bytes[1] % 4) * 16), Pad, Pad>>
    ELSE IF Len(bytes) = 2
    THEN <<B64Char(bytes[1] \div 4),
           B64Char((bytes[1] % 4) * 16 + bytes[2] \div 16),
           B64Char((bytes[2] % 16) * 4), Pad>>
    ELSE <<B64Char(bytes[1] \div 4),
           B64Char((bytes[1] % 4) * 16 + bytes[2] \div 16),
           B64Char((bytes[2] % 16) * 4 + bytes[3] \div 64),
           B64Char(bytes[3] % 64)>> \o b64encode(SubSeq(bytes, 4, Len(bytes)))

\* base64.b64decode(s) without validation (binascii.a2b_base64): characters
\* outside the alphabet are skipped, the bits of the last character that
\* fill no byte are dropped, decoding stops at the padding that completes a
\* group, and an incomplete last group raises binascii.Error
RECURSIVE a2b_base64(_, _, _, _, _, _)
a2b_base64(s, i, quad_pos, leftchar, pads, out) ==
    IF i > Len(s)
    THEN IF quad_pos # 0 THEN [error |-> TRUE, bytes |-> <<>>]
         ELSE [error |-> FALSE, bytes |-> out]
    ELSE IF s[i] = Pad
    THEN IF quad_pos >= 2 /\ quad_pos + pads + 1 >= 4
         THEN [error |-> FALSE, bytes |-> out]
         ELSE a2b_base64(s, i + 1, quad_pos, leftchar,
                         IF quad_pos >= 2 THEN pads + 1 ELSE pads, out)
    ELSE LET v == B64Value(s[i])
         IN  IF v >= 64 THEN a2b_base64(s, i + 1, quad_pos, leftchar, pads, out)
             ELSE CASE quad_pos = 0 -> a2b_base64(s, i + 1, 1, v, 0, out)
                    [] quad_pos = 1 ->
                          a2b_base64(s, i + 1, 2, v % 16, 0,
                                     Append(out, leftchar * 4 + v \div 16))
                    [] quad_pos = 2 ->
                          a2b_base64(s, i + 1, 3, v % 4, 0,
                                     Append(out, leftchar * 16 + v \div 4))
                    [] OTHER ->
                          a2b_base64(s, i + 1, 0, 0, 0, Append(out, leftchar * 64 + v))

b64decode(s) == a2b_base64(s, 1, 0, 0, 0, <<>>)

\* SHA512.new(data): the digest stands for the text it was computed from (no
\* two texts have the same digest)
SHA512(data) == [digest_of |-> data]

\* PKCS1_v1_5.new(key).verify(h, signature): RSA verification maps a signature
\* to one encoded digest, so for a key and a digest exactly one byte string
\* verifies, the signature the key's owner issued for that digest; nobody
\* else can produce one for another digest
PKCS1_v1_5_verify(issued, key, h, signature) ==
    /\ key = issued.key
    /\ h = issued.h
    /\ signature = issued.signature

\* _verify_sha512_signature(public_key, signature, data)
Webhook_verify_sha512_signature(issued, public_key, signature, data) ==
    LET stripped == replace_spaces(data)
        h        == SHA512(stripped)
        decoded  == b64decode(signature)
    IN  IF decoded.error THEN "binascii.Error"
        ELSE IF PKCS1_v1_5_verify(issued, public_key, h, decoded.bytes) THEN "True"
        ELSE "False"

\* The bodies handed to the function: json.dumps(flask_request.json), text with
\* spaces after its separators and no other whitespace
MaxPayloadLen == 2
PayloadChars == {Space, 48, 97}
Payloads == SeqsUpTo(PayloadChars, MaxPayloadLen) \ {<<>>}

\* The signatures of Source's key: byte strings as long as the key's modulus
SigLen == 1
SigBytes == {0, 65, 255}
Signatures == {sig \in SeqsUpTo(SigBytes, SigLen) : Len(sig) = SigLen}

\* Source signs the whitespace-stripped body
Whitespace == {9, 10, 13, Space}
SignedForm(data) == SelectSeq(data, LAMBDA c : c \notin Whitespace)

\* Source has signed a body; the request arrives with the body and the
\* base64 text of the signature in its header
InitVerify ==
    /\ source = PersonPayload
    /\ tCompanies = <<>>
    /\ tContacts = <<>>
    /\ nextContactId = 1
    /\ faults = 0
    /\ run = [r \in Runs |-> IdleRun]
    /\ calls = [r \in Runs |-> <<>>]
    /\ \E data \in Payloads, sig \in Signatures :
          verification =
              [issued     |-> [key |-> "lexware", h |-> SHA512(SignedForm(data)),
                               signature |-> sig],
               public_key |-> "lexware",
               signature  |-> b64encode(sig),
               data       |-> data,
               mutated    |-> "none",
               result     |-> "none"]

Unverified == verification.result = "none" /\ verification.mutated = "none"

\* One bit of the body is inverted on the way
MutatePayload ==
    /\ Unverified
    /\ \E i \in 1..Len(verification.data), b \in Bits :
          verification' = [verification EXCEPT !.data = FlipBitAt(@, i, b),
                                               !.mutated = "payload"]
    /\ UNCHANGED <<source, tCompanies, tContacts, nextContactId, faults, run, calls>>

\* One bit of the signature header is inverted on the way
MutateSignature ==
    /\ Unverified
    /\ \E i \in 1..Len(verification.signature), b \in Bits :
          verification' = [verification EXCEPT !.signature = FlipBitAt(@, i, b),
                                               !.mutated = "signature"]
    /\ UNCHANGED <<source, tCompanies, tContacts, nextContactId, faults, run, calls>>

\* load_webhook calls _verify_sha512_signature on what arrived
VerifySignature ==
    /\ verification.result = "none"
    /\ verification' =
          [verification EXCEPT !.result =
              Webhook_verify_sha512_signature(verification.issued, verification.public_key,
                                              verification.signature, verification.data)]
    /\ UNCHANGED <<source, tCompanies, tContacts, nextContactId, faults, run, calls>>

NextVerify == MutatePayload \/ MutateSignature \/ VerifySignature

SpecVerify == InitVerify /\ [][NextVerify]_vars

-----------------------------------------------------------------------------
(* Observations on a run's calls *)

CallsWhere(r, Test(_)) == SelectSeq(calls[r], Test)

IsWrite(c) == c.method \in {"POST", "PATCH", "DELETE"}
IsCompanyPost(c) == c.method = "POST" /\ c.resource = "Companies"
IsCompanyPatch(c) == c.method = "PATCH" /\ c.resource = "Companies"
IsContactPost(c) == c.method = "POST" /\ c.resource = "Contacts"
IsContactPatch(c) == c.method = "PATCH" /\ c.resource = "Contacts"
IsContactDelete(c) == c.method = "DELETE" /\ c.resource = "Contacts"
IsContactWrite(c) == IsContactPost(c) \/ IsContactPatch(c)

\* The companyNumber query of run r has returned
Queried(r) ==
    \E i \in 1..Len(calls[r]) :
        calls[r][i].resource = "CompaniesQuery" /\ calls[r][i].outcome = "ok"

\* Target's companies as they were when run r queried them: a run only adds
\* companies, at the end of the list
CompaniesAtQuery(r) ==
    SubSeq(tCompanies, 1, Len(tCompanies) - Len(CallsWhere(r, IsCompanyPost)))

\* The number N of Target companies whose companyNumber is the customer
\* number of run r's Source record, at query time
MatchesAtQuery(r) ==
    SelectSeq(CompaniesAtQuery(r),
              LAMBDA c : c.companyNumber = Str(run[r].lex_company.roles_customer_number))

Ended(r) == run[r].pc = "done"
Completed(r) == Ended(r) /\ run[r].response \in {"Webhook received!", "exit 0"}

-----------------------------------------------------------------------------
(* C1 *)

\* C1: assure_company dispatches on the number N of Target companies that
\* carry the Source customer number when queried: with N = 0 it runs
\* create_company (one company POST by the end) and never update_company,
\* with N = 1 it runs update_company with the id of the matched company (one
\* company PATCH carrying that id by the end) and never create_company; no
\* run executes both, nor either twice.
C1_Dispatch ==
    \A r \in Runs :
        (run[r].entry = "webhook" /\ Queried(r)) =>
            LET N       == Len(MatchesAtQuery(r))
                creates == CallsWhere(r, IsCompanyPost)
                updates == CallsWhere(r, IsCompanyPatch)
            IN  /\ run[r].companies = MatchesAtQuery(r)
                /\ Len(creates) + Len(updates) <= 1
                /\ N = 0 => /\ run[r].mode = "create"
                            /\ updates = <<>>
                            /\ Completed(r) => Len(creates) = 1
                /\ N = 1 => /\ run[r].mode = "update"
                            /\ run[r].autotask_id = MatchesAtQuery(r)[1].id
                            /\ creates = <<>>
                            /\ \A i \in 1..Len(updates) :
                                  updates[i].json.id = MatchesAtQuery(r)[1].id
                            /\ Completed(r) => Len(updates) = 1
                /\ N > 1 => run[r].mode = "none"

\* A completed update of company 2, the one match among two companies
C1_Witness ==
    \E r \in Runs :
        /\ run[r].entry = "webhook" /\ Completed(r)
        /\ Len(tCompanies) = 2
        /\ Len(MatchesAtQuery(r)) = 1
        /\ \E i \in 1..Len(calls[r]) : IsCompanyPatch(calls[r][i]) /\ calls[r][i].json.id = 2

-----------------------------------------------------------------------------
(* C2 *)

\* C2: when the query returns more than one company with the Source customer
\* number, the run issues no write call at all, ends right after the query
\* and has the error "exists multiple times" reported (logged); the error is
\* reported in no other case.
C2_AmbiguousNoWrite ==
    \A r \in Runs :
        /\ (run[r].entry = "webhook" /\ Queried(r) /\ Len(MatchesAtQuery(r)) > 1) =>
              /\ CallsWhere(r, IsWrite) = <<>>
              /\ calls[r][Len(calls[r])].resource = "CompaniesQuery"
              /\ Completed(r)
              /\ run[r].logged = {"exists multiple times in AutoTask"}
        /\ run[r].logged # {} =>
              run[r].entry = "webhook" /\ Queried(r) /\ Len(MatchesAtQuery(r)) > 1

\* A run that found two companies with the customer number has ended
C2_Witness ==
    \E r \in Runs :
        /\ run[r].entry = "webhook" /\ Queried(r) /\ Ended(r)
        /\ Len(MatchesAtQuery(r)) = 2
        /\ run[r].logged # {}

-----------------------------------------------------------------------------
(* C3 *)

\* C3: when the Source record carries no customer number, assure_company
\* fails with MissingJoinKey and the run issues no Target write call.
C3_MissingJoinKey ==
    \A r \in Runs :
        (/\ run[r].entry = "webhook"
         /\ run[r].lex_company # None
         /\ run[r].lex_company.roles_customer_number = Null) =>
            /\ CallsWhere(r, IsWrite) = <<>>
            /\ Ended(r) => run[r].response = "MissingJoinKey"

-----------------------------------------------------------------------------
(* C4 *)

\* A request whose signature did not verify never gets past load_webhook: the
\* handler ends with the exception and has issued no call
UnverifiedNeverReconciles ==
    \A r \in Runs :
        (run[r].entry = "webhook" /\ run[r].sig # "valid") =>
            /\ Ended(r)
            /\ calls[r] = <<>>
            /\ run[r].response \in {"ValueError: Invalid signature", "AttributeError"}

\* C4: every request whose signature verification does not return true (wrong
\* signature, or no signature header) is rejected with the authentication
\* error, the 'Invalid signature' error of load_webhook, and no Source fetch
\* and no Target call is issued for it.
C4_RejectUnverified ==
    \A r \in Runs :
        (run[r].entry = "webhook" /\ run[r].sig # "valid") =>
            /\ Ended(r)
            /\ calls[r] = <<>>
            /\ run[r].response = "ValueError: Invalid signature"

-----------------------------------------------------------------------------
(* Observations on update_company and create_company *)

\* The contact list of update_company has been fetched
Fetched(r) ==
    \E i \in 1..Len(calls[r]) :
        /\ calls[r][i].method = "GET" /\ calls[r][i].resource = "Contacts"
        /\ calls[r][i].outcome = "ok"

\* The cleanup loop of update_company is over
CleanupDone(r) == Fetched(r) /\ run[r].pc \in {"update_contact", "done"}

ContactPersons(r) == run[r].lex_company.contactPersons

\* The contact persons the contact loop of run r has been through
Processed(r) ==
    CASE run[r].pc \in {"post_contact", "update_contact"} -> run[r].idx - 1
      [] Completed(r) /\ run[r].mode # "none"             -> Len(ContactPersons(r))
      [] OTHER                                            -> 0

\* The calls on Target's companies and contacts, the query left out
IsRecordCall(c) == c.resource \in {"Companies", "Contacts"}

-----------------------------------------------------------------------------
(* C5 *)

\* C5: once the cleanup of update_company is over, the contacts a DELETE was
\* issued for are exactly the contacts of the fetched list whose email is the
\* email of no Source contact: every one of them, none of the others.
C5_DeletesAllStale ==
    \A r \in Runs :
        (run[r].mode = "update" /\ CleanupDone(r)) =>
            LET deletes == CallsWhere(r, IsContactDelete)
            IN  {deletes[i].contactId : i \in 1..Len(deletes)}
                = {run[r].contacts[i].id : i \in
                      {j \in 1..Len(run[r].contacts) :
                          run[r].contacts[j].emailAddress \notin LexEmails(run[r])}}

-----------------------------------------------------------------------------
(* C6 *)

\* C6: in update_company the k-th contact write is the write of the k-th
\* Source contact, one write per contact gone through: a PATCH carrying the
\* id of a fetched Target contact with the same email when the fetched list
\* (the contacts Target held for the company when fetched) has one, a POST
\* without id under the matched company otherwise; when the run completes
\* every Source contact has had its write.
C6_OneWritePerSourceContact ==
    \A r \in Runs :
        run[r].mode = "update" =>
            LET W        == CallsWhere(r, IsContactWrite)
                contacts == run[r].contacts
            IN  /\ (Fetched(r) /\ calls[r][Len(calls[r])].method = "GET") =>
                       contacts = ContactsOf(run[r].autotask_id)
                /\ Len(W) = Processed(r)
                /\ Completed(r) => Len(W) = Len(ContactPersons(r))
                /\ \A k \in 1..Len(W) :
                      LET email == ContactPersons(r)[k].emailAddress
                          same  == {i \in 1..Len(contacts) : contacts[i].emailAddress = email}
                      IN  /\ W[k].json.emailAddress = email
                          /\ W[k].companyId = run[r].autotask_id
                          /\ IF same # {}
                             THEN /\ W[k].method = "PATCH"
                                  /\ \E i \in same : W[k].json.id = contacts[i].id
                             ELSE /\ W[k].method = "POST"
                                  /\ "id" \notin DOMAIN W[k].json

\* A completed update that patched its first Source contact and created its
\* second
C6_Witness ==
    \E r \in Runs :
        /\ run[r].mode = "update" /\ Completed(r)
        /\ LET W == CallsWhere(r, IsContactWrite)
           IN  Len(W) = 2 /\ W[1].method = "PATCH" /\ W[2].method = "POST"

-----------------------------------------------------------------------------
(* C7 *)

CallRank(c) ==
    CASE IsCompanyPatch(c)  -> 1
      [] c.method = "GET"   -> 2
      [] IsContactDelete(c) -> 3
      [] OTHER              -> 4

\* C7: the calls update_company issues on Target's companies and contacts
\* are ordered: first the company PATCH carrying id = autotask_id, second the
\* fetch of the company's contacts, then the DELETEs, then the contact PATCHes
\* and POSTs; no DELETE follows a contact PATCH or POST.  Before the company
\* PATCH the run has only read: the Source fetch, the companyNumber query and
\* the country lookups of _create_company_object.
C7_UpdateOrder ==
    \A r \in Runs :
        run[r].mode = "update" =>
            LET U == CallsWhere(r, IsRecordCall)
            IN  /\ \A i, j \in 1..Len(U) : i < j => CallRank(U[i]) <= CallRank(U[j])
                /\ Len(U) >= 1 => /\ IsCompanyPatch(U[1])
                                  /\ U[1].json.id = run[r].autotask_id
                /\ Len(U) >= 2 => /\ U[2].method = "GET" /\ U[2].resource = "Contacts"
                                  /\ U[2].companyId = run[r].autotask_id
                /\ \A i \in 3..Len(U) : IsContactDelete(U[i]) \/ IsContactWrite(U[i])
                /\ \A i \in 1..Len(calls[r]) :
                      IsCompanyPatch(calls[r][i]) =>
                          /\ \A j \in 1..(i - 1) : calls[r][j].method = "GET"
                          /\ \A j \in (i + 1)..Len(calls[r]) : calls[r][j].resource = "Contacts"
                /\ Completed(r) => Len(U) >= 2

\* A completed update with a DELETE followed by a contact write
C7_Witness ==
    \E r \in Runs :
        /\ run[r].mode = "update" /\ Completed(r)
        /\ LET U == CallsWhere(r, IsRecordCall)
           IN  Len(U) = 4 /\ IsContactDelete(U[3]) /\ IsContactWrite(U[4])

-----------------------------------------------------------------------------
(* C8 *)

\* assure_company has run in run r: its query has returned
AssureRun(r) == run[r].entry = "webhook" /\ Queried(r)

\* Target's contacts by identity and email, whatever their other attributes
ContactSet ==
    {[id |-> tContacts[i].id, companyID |-> tContacts[i].companyID,
      emailAddress |-> tContacts[i].emailAddress] : i \in 1..Len(tContacts)}

IsCreateOrDelete(c) == c.method \in {"POST", "DELETE"}

\* C8: when assure_company has run to completion on the Source record and is
\* run again on the same record with nothing in between, the second run
\* issues no company POST, no contact POST and no DELETE, and no step of it
\* changes Target's contact set.
C8_Idempotent ==
    [][(AssureRun(1) /\ Completed(1) /\ run[2].entry = "webhook") =>
          /\ CallsWhere(2, IsCreateOrDelete)' = <<>>
          /\ ContactSet' = ContactSet]_vars

-----------------------------------------------------------------------------
(* C9 *)

\* C9: the calls create_company issues on Target's companies and contacts
\* are one company POST and, after it, one contact POST per contact person
\* gone through, in Source order, each addressed to the company id of the
\* POST's response (the id Target gave the new company); no PATCH and no
\* DELETE.  When the run completes every contact person has had its POST.
C9_CreateCalls ==
    \A r \in Runs :
        run[r].mode = "create" =>
            LET U == CallsWhere(r, IsRecordCall)
            IN  /\ \A i \in 1..Len(U) : U[i].method = "POST"
                /\ Len(U) >= 1 =>
                      /\ IsCompanyPost(U[1])
                      /\ run[r].company_id = tCompanies[Len(tCompanies)].id
                      /\ \A i \in 1..(Len(tCompanies) - 1) :
                            tCompanies[i].id # run[r].company_id
                      /\ Len(U) = 1 + Processed(r)
                /\ \A k \in 2..Len(U) :
                      /\ IsContactPost(U[k])
                      /\ U[k].companyId = run[r].company_id
                      /\ U[k].json.emailAddress = ContactPersons(r)[k - 1].emailAddress
                /\ Completed(r) => Len(U) = 1 + Len(ContactPersons(r))

\* A completed create_company with two contact persons
C9_Witness ==
    \E r \in Runs :
        /\ run[r].mode = "create" /\ Completed(r)
        /\ Len(ContactPersons(r)) = 2
        /\ Len(CallsWhere(r, IsContactPost)) = 2
        /\ Len(tCompanies) >= 2

-----------------------------------------------------------------------------
(* C10 *)

\* C10: of the contact payloads built in one create_company or update_company
\* run, the k-th is that of the k-th contact person, every one has isActive
\* set, and the first one and no other has primaryContact = true: a completed
\* run on a non-empty contactPersons has built exactly one primary payload.
C10_PrimaryFirst ==
    \A r \in Runs :
        run[r].mode # "none" =>
            LET W == CallsWhere(r, IsContactWrite)
            IN  /\ \A k \in 1..Len(W) :
                      /\ W[k].json.emailAddress = ContactPersons(r)[k].emailAddress
                      /\ "isActive" \in DOMAIN W[k].json
                      /\ W[k].json.isActive = 1
                      /\ W[k].json.primaryContact = (k = 1)
                /\ (Completed(r) /\ Len(ContactPersons(r)) > 0) =>
                      Cardinality({k \in 1..Len(W) : W[k].json.primaryContact}) = 1

\* A completed update_company that built two payloads
C10_Witness ==
    \E r \in Runs :
        /\ run[r].mode = "update" /\ Completed(r)
        /\ LET W == CallsWhere(r, IsContactWrite)
           IN  Len(W) = 2 /\ W[1].json.primaryContact /\ ~W[2].json.primaryContact

-----------------------------------------------------------------------------
(* C11 *)

\* The Target company run r reconciled: the created or the matched one
ReconciledId(r) == IF run[r].mode = "create" THEN run[r].company_id ELSE run[r].autotask_id

\* C11: after a completed create_company or update_company run on a Source
\* record with contactPersons, exactly one contact of the reconciled Target
\* company has primaryContact = true, and it is the contact of the first
\* Source contact (it carries that contact's email).
C11_OnePrimary ==
    \A r \in Runs :
        (run[r].mode # "none" /\ Completed(r) /\ Len(ContactPersons(r)) > 0) =>
            LET cs        == ContactsOf(ReconciledId(r))
                primaries == {i \in 1..Len(cs) : cs[i].primaryContact}
            IN  /\ Cardinality(primaries) = 1
                /\ \A i \in primaries :
                      cs[i].emailAddress = ContactPersons(r)[1].emailAddress

-----------------------------------------------------------------------------
(* C12 *)

\* The calls of the contact loops: one per contact
IsContactCall(c) == c.resource = "Contacts" /\ IsWrite(c)

\* The emails of the fetched list the cleanup loop deletes a contact for
StaleKeys(r) == Keys(run[r].email_map) \ LexEmails(run[r])

\* C12: when the call for one contact (POST, PATCH or DELETE) has failed, the
\* run still issues the calls of all later contacts (by its end one DELETE
\* per stale email of the fetched list and one write per Source contact),
\* undoes nothing (a create run issues nothing but POSTs, and its company
\* stays) and has the failure reported: logged as an error, or raised.
C12_FailureIsolation ==
    \A r \in Runs :
        (/\ run[r].mode # "none" /\ Ended(r)
         /\ \E i \in 1..Len(calls[r]) :
               IsContactCall(calls[r][i]) /\ calls[r][i].outcome # "ok") =>
            /\ Len(CallsWhere(r, IsContactWrite)) = Len(ContactPersons(r))
            /\ run[r].mode = "update" =>
                  Len(CallsWhere(r, IsContactDelete)) = Cardinality(StaleKeys(r))
            /\ run[r].mode = "create" =>
                  /\ \A i \in 1..Len(calls[r]) :
                        IsWrite(calls[r][i]) => calls[r][i].method = "POST"
                  /\ run[r].company_id \in CompanyIds
            /\ run[r].logged # {} \/ ~Completed(r)

-----------------------------------------------------------------------------
(* C13 *)

IsSourceFetch(c) == c.resource = "LexContact"
IsCompanyQuery(c) == c.resource = "CompaniesQuery"
IsTargetCall(c) == ~IsSourceFetch(c)

Recognized == {"contact.created", "contact.changed"}

\* C13: a verified webhook with eventType contact.created or contact.changed
\* triggers exactly one Source fetch, the run's first call, followed by
\* exactly one assure_company, which starts with its companyNumber query (or
\* raises at once when the fetch returned no company); a verified webhook
\* with any other eventType issues no call at all and is answered with
\* "Webhook received, but not processed!", no error.
C13_EventDispatch ==
    \A r \in Runs :
        (run[r].entry = "webhook" /\ run[r].sig = "valid") =>
            IF run[r].eventType \in Recognized
            THEN /\ Len(CallsWhere(r, IsSourceFetch)) <= 1
                 /\ Len(CallsWhere(r, IsCompanyQuery)) <= 1
                 /\ Len(calls[r]) >= 1 => IsSourceFetch(calls[r][1])
                 /\ Len(calls[r]) >= 2 => IsCompanyQuery(calls[r][2])
                 /\ Ended(r) =>
                       /\ Len(CallsWhere(r, IsSourceFetch)) = 1
                       /\ IF run[r].lex_company = None
                          THEN Len(calls[r]) = 1 /\ run[r].response = "AttributeError"
                          ELSE Len(CallsWhere(r, IsCompanyQuery)) = 1
            ELSE /\ calls[r] = <<>>
                 /\ Ended(r)
                 /\ run[r].response = "Webhook received, but not processed!"

\* A contact.changed webhook has run assure_company to its end
C13_Witness ==
    \E r \in Runs :
        /\ run[r].entry = "webhook" /\ run[r].eventType = "contact.changed"
        /\ Completed(r)
        /\ Len(CallsWhere(r, IsSourceFetch)) = 1
        /\ Len(CallsWhere(r, IsCompanyQuery)) = 1
        /\ run[r].mode # "none"

-----------------------------------------------------------------------------
(* C14 *)

\* The Source fetch of run r has returned
SourceFetched(r) ==
    \E i \in 1..Len(calls[r]) : IsSourceFetch(calls[r][i]) /\ calls[r][i].outcome = "ok"

\* C14: when the Source payload has no 'company' sub-object, get_contact
\* yields no record (None) and the run treats the contact as out of scope: it
\* issues no Target call and does not end in an error.
C14_OutOfScope ==
    \A r \in Runs :
        (SourceFetched(r) /\ ~source.hasCompany) =>
            /\ run[r].lex_company = None
            /\ CallsWhere(r, IsTargetCall) = <<>>
            /\ Ended(r) => Completed(r)

-----------------------------------------------------------------------------
(* C15 *)

\* C15: a verified webhook with a recognized event type is answered with the
\* generic acknowledgment "Webhook received!" whatever the outcome of the
\* run, failing Source fetch and failing Target calls included.
C15_GenericAck ==
    \A r \in Runs :
        (/\ run[r].entry = "webhook" /\ run[r].sig = "valid"
         /\ run[r].eventType \in Recognized
         /\ Ended(r)) =>
            run[r].response = "Webhook received!"

-----------------------------------------------------------------------------
(* C16 *)

IsCompanyWrite(c) == IsCompanyPost(c) \/ IsCompanyPatch(c)

ShippingFields == {"address1", "city", "postalCode", "countryID"}
BillingFields == {"billingAddress1", "billToCity", "billToZipCode", "billToCountryID"}

\* C16: every company payload sent to Target (POST or PATCH) carries only
\* fields with a value, never a None; for a Source record without shipping
\* address none of address1, city, postalCode, countryID is in the payload,
\* and without billing address none of billingAddress1, billToCity,
\* billToZipCode, billToCountryID; the fields the record or the configuration
\* does give (companyName, ownerResourceID, phone) are in it.
C16_OnlySetFields ==
    \A r \in Runs :
        LET P == CallsWhere(r, IsCompanyWrite)
        IN  \A k \in 1..Len(P) :
               LET json == P[k].json
               IN  /\ \A f \in DOMAIN json :
                         IF f \in BoolFields THEN json[f] \in BOOLEAN
                         ELSE IF f \in IntFields THEN json[f] # NoId
                         ELSE json[f] # Null
                   /\ run[r].lex_company.shipping_adresses = <<>> =>
                         DOMAIN json \cap ShippingFields = {}
                   /\ run[r].lex_company.billing_adresses = <<>> =>
                         DOMAIN json \cap BillingFields = {}
                   /\ {"companyName", "ownerResourceID", "phone"} \subseteq DOMAIN json

\* A company PATCH for a Source record with neither address, tax number nor
\* fax has been sent
C16_Witness ==
    \E r \in Runs :
        /\ Completed(r)
        /\ run[r].lex_company.shipping_adresses = <<>>
        /\ run[r].lex_company.billing_adresses = <<>>
        /\ \E i \in 1..Len(calls[r]) :
              /\ IsCompanyPatch(calls[r][i])
              /\ DOMAIN calls[r][i].json =
                    {"id", "companyName", "companyNumber", "companyType",
                     "ownerResourceID", "phone"}

-----------------------------------------------------------------------------
(* C17 *)

\* Target knows a country with that ISO code
Mapped(code) == \E i \in 1..Len(Countries) : Countries[i].countryCode = code

\* C17: the company payload has countryID exactly when the Source record has
\* a shipping address whose country code Target knows, and then the id of
\* that country; likewise billToCountryID for the billing address, whatever
\* the shipping lookup found.  With an unknown code the other fields of the
\* address are still in the payload and the create or update goes on: a
\* completed run has sent its company write.
C17_UnmappedCountry ==
    \A r \in Runs :
        run[r].mode # "none" =>
            LET lex == run[r].lex_company
                P   == CallsWhere(r, IsCompanyWrite)
            IN  /\ \A k \in 1..Len(P) :
                      LET json == P[k].json
                      IN  /\ "countryID" \in DOMAIN json <=>
                                /\ Len(lex.shipping_adresses) >= 1
                                /\ Mapped(lex.shipping_adresses[1].countryCode)
                          /\ "countryID" \in DOMAIN json =>
                                \E i \in 1..Len(Countries) :
                                    /\ Countries[i].countryCode =
                                          lex.shipping_adresses[1].countryCode
                                    /\ json.countryID = Countries[i].id
                          /\ "billToCountryID" \in DOMAIN json <=>
                                /\ Len(lex.billing_adresses) >= 1
                                /\ Mapped(lex.billing_adresses[1].countryCode)
                          /\ "billToCountryID" \in DOMAIN json =>
                                \E i \in 1..Len(Countries) :
                                    /\ Countries[i].countryCode =
                                          lex.billing_adresses[1].countryCode
                                    /\ json.billToCountryID = Countries[i].id
                          /\ Len(lex.shipping_adresses) >= 1 =>
                                {"address1", "city", "postalCode"} \subseteq DOMAIN json
                          /\ Len(lex.billing_adresses) >= 1 =>
                                {"billingAddress1", "billToCity", "billToZipCode"}
                                    \subseteq DOMAIN json
                /\ Completed(r) => Len(P) = 1

\* A completed run whose shipping address has an unknown country code and
\* whose billing address a known one: the payload has billToCountryID only
C17_Witness ==
    \E r \in Runs :
        /\ run[r].mode # "none" /\ Completed(r)
        /\ Len(run[r].lex_company.shipping_adresses) = 1
        /\ Len(run[r].lex_company.billing_adresses) = 1
        /\ ~Mapped(run[r].lex_company.shipping_adresses[1].countryCode)
        /\ Mapped(run[r].lex_company.billing_adresses[1].countryCode)
        /\ \E i \in 1..Len(calls[r]) :
              /\ IsCompanyWrite(calls[r][i])
              /\ "countryID" \notin DOMAIN calls[r][i].json
              /\ calls[r][i].json.billToCountryID = 276
              /\ "address1" \in DOMAIN calls[r][i].json

-----------------------------------------------------------------------------
(* C18 *)

\* Run r found no company with its customer number and its company POST was
\* served
CreatedUnmatched(r) ==
    /\ AssureRun(r)
    /\ run[r].customer_number # Null
    /\ run[r].companies = <<>>
    /\ \E i \in 1..Len(calls[r]) : IsCompanyPost(calls[r][i]) /\ calls[r][i].outcome = "ok"

\* Target's companies with that companyNumber
CompaniesWith(number) == {i \in 1..Len(tCompanies) : tCompanies[i].companyNumber = number}

\* C18: runs for one customer number are not coordinated.  No run ever waits
\* for the other: a request can be taken, and a run can issue its query and
\* its company POST, whatever the other run is doing.  When two overlapping
\* runs both found zero matches for the customer number and both had their
\* company POST served, Target holds two companies with that customer number,
\* each run having created its own.
C18_DuplicateCreate ==
    /\ \A r \in Runs :
          /\ run[r].pc = "idle" => ENABLED (MayStartConc(r) /\ ReceiveWebhook(r))
          /\ run[r].pc = "query" => ENABLED AssureCompanyQuery(r)
          /\ run[r].pc = "post_company" => ENABLED PostCompany(r)
    /\ (\A r \in Runs : CreatedUnmatched(r)) =>
          /\ \A r \in Runs : Cardinality(CompaniesWith(run[r].customer_number)) >= 2
          /\ \A r, q \in Runs : r # q => run[r].company_id # run[q].company_id
          /\ \A r \in Runs : tCompanies[run[r].company_id].companyNumber = run[r].customer_number

\* Both runs have ended after creating a company each: Target, which held no
\* company, holds two with the customer number
C18_Witness ==
    /\ \A r \in Runs : CreatedUnmatched(r) /\ Completed(r)
    /\ Len(tCompanies) = 2
    /\ Cardinality(CompaniesWith("1001")) = 2

-----------------------------------------------------------------------------
(* C19 *)

\* C19: _verify_sha512_signature returns true for a body signed over its
\* whitespace-stripped form, verified with the signer's public key, and does
\* not return true when one bit of the body or one bit of the signature has
\* been inverted.
C19_SignatureVerification ==
    verification.result # "none" =>
        IF verification.mutated = "none"
        THEN verification.result = "True"
        ELSE verification.result # "True"

-----------------------------------------------------------------------------
(* C20 *)

IsContactFetch(c) == c.method = "GET" /\ c.resource = "Contacts"
IsCountryLookup(c) == c.resource = "CountriesQuery"

\* What run r has issued so far: at most one Source fetch, one company
\* query, one lookup per address, one company write and one contact-list
\* fetch; no contact is deleted twice and only contacts of the fetched list
\* are; the k-th contact write is that of the k-th Source contact, so there
\* is at most one per Source contact; a call that raised is the run's last,
\* and a call that failed otherwise is followed by the call of the next step
CallsOnce(r) ==
    LET D == CallsWhere(r, IsContactDelete)
        W == CallsWhere(r, IsContactWrite)
    IN  /\ Len(CallsWhere(r, IsSourceFetch)) <= 1
        /\ Len(CallsWhere(r, IsCompanyQuery)) <= 1
        /\ Len(CallsWhere(r, IsCountryLookup)) <= 2
        /\ Len(CallsWhere(r, IsCompanyWrite)) <= 1
        /\ Len(CallsWhere(r, IsContactFetch)) <= 1
        /\ \A i, j \in 1..Len(D) : i # j => D[i].contactId # D[j].contactId
        /\ \A i \in 1..Len(D) :
              \E k \in 1..Len(run[r].contacts) : run[r].contacts[k].id = D[i].contactId
        /\ W # <<>> => Len(W) <= Len(ContactPersons(r))
        /\ \A k \in 1..Len(W) :
              /\ W[k].json.emailAddress = ContactPersons(r)[k].emailAddress
              /\ W[k].json.primaryContact = (k = 1)
        /\ \A i \in 1..Len(calls[r]) :
              calls[r][i].outcome = "raise" => i = Len(calls[r]) /\ Ended(r)

\* C20: every run terminates, completed or at the first call that raises
\* (once a run has started, the started run eventually has ended), and never
\* issues a call again: per run at most one company query, one company
\* write, one contact-list fetch, one DELETE per Target contact and one
\* contact write per Source contact, whether calls fail or not.
C20_TerminatesNoRetry ==
    /\ [](\A r \in Runs : CallsOnce(r))
    /\ (\E r \in Runs : run[r].pc # "idle") ~> (\A r \in Runs : run[r].pc # "idle" => Ended(r))

\* A completed update with a failed call: the DELETE was answered with an
\* error, was not issued again and the contact write followed
C20_Witness ==
    \E r \in Runs :
        /\ Completed(r) /\ run[r].mode = "update"
        /\ Len(CallsWhere(r, IsContactDelete)) = 1
        /\ CallsWhere(r, IsContactDelete)[1].outcome = "error"
        /\ Len(CallsWhere(r, IsContactWrite)) = 1

-----------------------------------------------------------------------------
(* C21 *)

\* The companyNumber query of run r that returned before its call number i
QueriedBefore(r, i) ==
    \E j \in 1..(i - 1) :
        IsCompanyQuery(calls[r][j]) /\ calls[r][j].outcome = "ok"

\* C21: on every entry point, the webhook handler and the sync command, a
\* company POST is issued only after a companyNumber query of the same run
\* returned zero matches, so that no run creates a Target company while one
\* with the customer number of its Source record already exists.
C21_CreateOnlyAfterQuery ==
    \A r \in Runs :
        \A i \in 1..Len(calls[r]) :
            IsCompanyPost(calls[r][i]) =>
                /\ QueriedBefore(r, i)
                /\ run[r].companies = <<>>
                /\ MatchesAtQuery(r) = <<>>

-----------------------------------------------------------------------------
(* C22 *)

\* The company POST of run r that Target answered with an itemId before the
\* run's call number i
CompanyPostedBefore(r, i) ==
    \E j \in 1..(i - 1) :
        IsCompanyPost(calls[r][j]) /\ calls[r][j].outcome = "ok"

\* C22: in create_company, contact POSTs are issued only under a company id
\* that Target returned for a successful company POST: when the company POST
\* fails or its response carries no itemId, no contact POST is issued.
C22_ContactsUnderReturnedId ==
    \A r \in Runs :
        run[r].mode = "create" =>
            \A i \in 1..Len(calls[r]) :
                IsContactPost(calls[r][i]) =>
                    /\ CompanyPostedBefore(r, i)
                    /\ calls[r][i].companyId # NoId
                    /\ calls[r][i].companyId \in CompanyIds

-----------------------------------------------------------------------------
(* C23 *)

\* The email addresses of a list of Target contacts
EmailsOf(cs) == {cs[i].emailAddress : i \in 1..Len(cs)}

\* No two entries of a list of contacts carry the same email address
DistinctEmails(cs) ==
    \A i, j \in 1..Len(cs) : cs[i].emailAddress = cs[j].emailAddress => i = j

\* C23: after a failure-free update_company run with no other run, the set of
\* email addresses of the Target company's contacts equals the set of email
\* addresses of the Source record's contactPersons, and each such email
\* belongs to exactly one Target contact when that held in the fetched list
\* and the Source emails are pairwise distinct.
C23_Convergence ==
    \A r \in Runs :
        (run[r].mode = "update" /\ Completed(r)) =>
            LET after == ContactsOf(run[r].autotask_id)
            IN  /\ EmailsOf(after) = LexEmails(run[r])
                /\ (DistinctEmails(run[r].contacts)
                        /\ DistinctEmails(ContactPersons(r)))
                      => DistinctEmails(after)

-----------------------------------------------------------------------------
(* C24 *)

\* The Company fields _create_company_object fills from the Source record or
\* from the configuration
ProvidedFields ==
    {"companyName", "companyNumber", "ownerResourceID", "taxID", "phone", "fax"}
        \cup ShippingFields \cup BillingFields

\* C24: the company PATCH of update_company leaves unchanged every field of
\* the existing Target company for which neither the Source record nor the
\* configuration provides a value: its payload contains the company id and
\* only fields derived from the Source record or the configuration (name,
\* customer number, tax id, owner resource id, phone, fax, address fields).
C24_PatchFrame ==
    \A r \in Runs :
        \A i \in 1..Len(calls[r]) :
            IsCompanyPatch(calls[r][i]) =>
                LET json == calls[r][i].json
                IN  /\ "id" \in DOMAIN json
                    /\ json.id = run[r].autotask_id
                    /\ DOMAIN json \subseteq {"id"} \cup ProvidedFields

=============================================================================
